---------------------------- MODULE Spec2Model ----------------------------
(***************************************************************************)
(* State-machine model of the HybridCutMix training code:                  *)
(*   src/utils/trainer.py  train, train_CutMix, train_HybridPartSwapping,  *)
(*                         train_HybridCutMix, test                        *)
(*   src/train.py          the driver (epoch loop, logging, checkpoint)    *)
(* utils/misc.py (Wrapper, generate_attentive_mask, rand_bbox) is not in   *)
(* the source tree; those three are modelled from the specification.       *)
(***************************************************************************)
EXTENDS Integers, Sequences, FiniteSets, TLC

(***************************************************************************)
(* Bounds of the model.                                                    *)
(***************************************************************************)
NumClasses == 2           \* number of label classes
ImgSide == 4              \* images are ImgSide x ImgSide pixels
MaxImages == 2            \* size of the largest data set
MaxCalls == 2             \* consecutive invocations made by the caller
MaxEpochs == 2            \* largest num_epochs the driver is run with

BatchSizes == {1, 2}      \* batch_size of the data loaders
CutProbs == {0, 1, 2}     \* cut_prob in halves: 0.0, 0.5, 1.0
RDraws == {0, 1}          \* np.random.rand() in halves: r is 0.0 or 0.5
Radii == {0, 1}           \* kwargs['radius']
Proposals == {1, 2}       \* kwargs['num_proposals'] / kwargs['multiplier']
Epochs == {0, 1}          \* cur_epoch handed to one invocation

(***************************************************************************)
(* Exact rational arithmetic: <<n, d>> with d > 0, in lowest terms.        *)
(* Stands for the Python / numpy floating point scalars.                   *)
(***************************************************************************)
Abs(x) == IF x < 0 THEN -x ELSE x

RECURSIVE GCD(_, _)
GCD(a, b) == IF b = 0 THEN a ELSE GCD(b, a % b)

Norm(q) ==
    LET g == GCD(Abs(q[1]), Abs(q[2]))
        s == IF q[2] < 0 THEN -1 ELSE 1
    IN  IF g = 0 THEN <<0, 1>> ELSE <<s * (q[1] \div g), s * (q[2] \div g)>>

RInt(n) == <<n, 1>>
RAdd(a, b) == Norm(<<a[1] * b[2] + b[1] * a[2], a[2] * b[2]>>)
RSub(a, b) == Norm(<<a[1] * b[2] - b[1] * a[2], a[2] * b[2]>>)
RMul(a, b) == Norm(<<a[1] * b[1], a[2] * b[2]>>)
RDiv(a, n) == Norm(<<a[1], a[2] * n>>)
RLt(a, b) == a[1] * b[2] < b[1] * a[2]
RLe(a, b) == a[1] * b[2] <= b[1] * a[2]

RECURSIVE SumSeq(_)
SumSeq(s) == IF s = <<>> THEN 0 ELSE Head(s) + SumSeq(Tail(s))

RECURSIVE RSumSeq(_)
RSumSeq(s) == IF s = <<>> THEN RInt(0) ELSE RAdd(Head(s), RSumSeq(Tail(s)))

Count(s, e) == Cardinality({i \in 1..Len(s) : s[i] = e})

(***************************************************************************)
(* Data: images, labels, loaders.                                          *)
(***************************************************************************)
Pix == (0..(ImgSide - 1)) \X (0..(ImgSide - 1))
Grid(W, H) == (0..(W - 1)) \X (0..(H - 1))

\* The image with id i of the data set: pixel (0,0) carries the id, the rest 0.
Image(i) == [p \in Pix |-> IF p = <<0, 0>> THEN i ELSE 0]
Label(i) == i % NumClasses

RECURSIVE Chunks(_, _, _)
Chunks(first, n, bs) ==
    IF first >= n THEN <<>>
    ELSE LET last == IF first + bs < n THEN first + bs ELSE n
         IN  <<[k \in 1..(last - first) |-> first + k - 1]>> \o Chunks(last, n, bs)

\* A DataLoader over images 0..n-1 with batch size bs (last batch may be short).
Loader(n, bs) == Chunks(0, n, bs)
Loaders == {Loader(n, bs) : n \in 1..MaxImages, bs \in BatchSizes}

BatchImages(b) == [k \in 1..Len(b) |-> Image(b[k])]
BatchLabels(b) == [k \in 1..Len(b) |-> Label(b[k])]

Perms(n) == {f \in [1..n -> 1..n] : \A i, j \in 1..n : f[i] = f[j] => i = j}


(***************************************************************************)
(* The backbone and the loss, external collaborators of the loops.         *)
(* Only what the loops read is kept: the argmax of the logits, the scalar  *)
(* loss and the gradient a backward pass leaves behind.                    *)
(***************************************************************************)
\* torch.argmax(model(batch), 1) for one image under parameters p.
PredMaxOf(p, img) ==
    (img[<<0, 0>>] + img[<<ImgSide - 1, ImgSide - 1>>] + p) % NumClasses

Forward(p, imgs) == [k \in 1..Len(imgs) |-> PredMaxOf(p, imgs[k])]

\* criterion(pred, target): a non-negative scalar, here the miss count.
Criterion(pm, target) == RInt(Cardinality({k \in 1..Len(pm) : pm[k] # target[k]}))

(***************************************************************************)
(* utils/misc.py, modelled from the specification (sections 4.2, 4.3).     *)
(***************************************************************************)
\* The square of the given radius around c, clipped at the map's boundary.
Region(c, radius, W, H) ==
    {q \in Grid(W, H) : Abs(q[1] - c[1]) <= radius /\ Abs(q[2] - c[2]) <= radius}

\* Seeds allowed: with allow_boundary false, not within radius of an edge.
SeedCandidates(radius, allow_boundary, W, H) ==
    IF allow_boundary THEN Grid(W, H)
    ELSE {q \in Grid(W, H) : /\ radius <= q[1] /\ q[1] <= W - 1 - radius
                             /\ radius <= q[2] /\ q[2] <= H - 1 - radius}

\* Row-major first position of maximal importance among cands.
ArgMax(cam, cands, H) ==
    CHOOSE q \in cands :
        \A o \in cands :
            \/ cam[o] < cam[q]
            \/ cam[o] = cam[q] /\ q[1] * H + q[2] <= o[1] * H + o[2]

RECURSIVE MarkProposals(_, _, _, _, _, _, _)
MarkProposals(cam, marked, k, radius, allow_boundary, W, H) ==
    LET cands == {q \in SeedCandidates(radius, allow_boundary, W, H) : cam[q] > 0}
    IN  IF k = 0 \/ cands = {} THEN marked
        ELSE LET c == ArgMax(cam, cands, H)
                 reg == Region(c, radius, W, H)
             IN  MarkProposals([q \in Grid(W, H) |-> IF q \in reg THEN 0 ELSE cam[q]],
                               marked \cup reg, k - 1, radius, allow_boundary, W, H)

\* generate_attentive_mask for one sample: marked regions 0, everything else 1.
generate_attentive_mask(cam, radius, num_proposals, allow_boundary, W, H) ==
    LET marked == MarkProposals(cam, {}, num_proposals, radius, allow_boundary, W, H)
    IN  [q \in Grid(W, H) |-> IF q \in marked THEN 0 ELSE 1]

Clip(x, lo, hi) == IF x < lo THEN lo ELSE IF x > hi THEN hi ELSE x

\* rand_bbox(size, lam): cut is int(W * sqrt(1 - lam)), <<cx, cy>> the drawn centre.
rand_bbox(cut, cx, cy) ==
    <<Clip(cx - cut \div 2, 0, ImgSide), Clip(cy - cut \div 2, 0, ImgSide),
      Clip(cx + cut \div 2, 0, ImgSide), Clip(cy + cut \div 2, 0, ImgSide)>>

(***************************************************************************)
(* Tensor operations of the augmented branches.                            *)
(***************************************************************************)
\* F.interpolate(mask, size=batch.shape[-2:], mode='nearest')
Interpolate(mask, W, H) ==
    [p \in Pix |-> mask[<<(p[1] * W) \div ImgSide, (p[2] * H) \div ImgSide>>]]

\* image_a + image_b  with image_a = m * a, image_b = (1 - m) * b
Blend(m, a, b) == [p \in Pix |-> m[p] * a[p] + (1 - m[p]) * b[p]]

\* batch[:, :, bbx1:bbx2, bby1:bby2] = batch[rand_index, :, bbx1:bbx2, bby1:bby2]
InBox(p, bb) == bb[1] <= p[1] /\ p[1] < bb[3] /\ bb[2] <= p[2] /\ p[2] < bb[4]
PasteBox(a, b, bb) == [p \in Pix |-> IF InBox(p, bb) THEN b[p] ELSE a[p]]

RMean(s) == RDiv(RSumSeq(s), Len(s))

(***************************************************************************)
(* Program constants.                                                      *)
(***************************************************************************)
NumStages == 4            \* len(stage_names), model.num_stages
FineStages == 3           \* target_stage_index < 3: fine grained features
VizIdxHybrid == 150       \* idx % 150 == 0
VizEpochHPS == 10         \* cur_epoch % 10 == 0
VizEpochHCM == 1          \* cur_epoch % 1 == 0
VizIdxTrain == 100        \* idx % 100 == 0
VizEpochTrain == 20       \* cur_epoch % 20 == 0
VizIdxTest == 300         \* idx % 300 == 0
VizEpochTest == 20        \* cur_epoch % 20 == 0

(***************************************************************************)
(* State.                                                                  *)
(***************************************************************************)
VARIABLES
    \* model, optimizer, scheduler
    params,            \* model parameters
    momentum,          \* optimizer state (SGD momentum buffer)
    grad,              \* .grad of the parameters: the backward passes summed in it
    last_epoch,        \* scheduler state: number of scheduler.step() calls
    training,          \* model.train() / model.eval() flag
    dict_activation,   \* Wrapper cache: stage -> forward pass that wrote it
    dict_gradients,    \* Wrapper cache: stage -> backward pass that wrote it
    \* the running invocation of a trainer function
    fn, pc, kw, train_loader, cur_epoch,
    idx, batch, labels, pred_max, loss, mix,
    final_radius, target_stage_index,
    train_loss, n_corrects, n_samples,
    ret, exc,
    trace,             \* calls made on model / optimizer / scheduler / figure, in order
    applied,           \* the passes whose gradient the last optimizer.step() applied
    calls,             \* invocations started by the caller
    \* the driver, src/train.py
    dpc, args, defined, d_loaders, epoch, best_valid_acc, epoch_train, epoch_valid,
    logs,              \* rows appended to logs and written to log.csv
    saves,             \* records handed to torch.save that reached the disk, in order
    output,            \* lines printed to output.txt
    dexc,              \* the exception that ended the run
    \* the comparison of a strategy with the vanilla loop
    ref                \* what the vanilla epoch did, and the strategy to compare

modelVars == <<params, momentum, grad, last_epoch, training, dict_activation, dict_gradients>>
argVars == <<fn, kw, train_loader, cur_epoch>>
batchVars == <<batch, labels, pred_max, loss, mix, target_stage_index>>
accVars == <<train_loss, n_corrects, n_samples>>
callerVars == <<dpc, args, defined, d_loaders, epoch, best_valid_acc, epoch_train,
                epoch_valid, logs, saves, output, dexc, ref>>
vars == <<modelVars, argVars, batchVars, accVars, pc, idx, final_radius,
          ret, exc, trace, applied, calls, callerVars>>

Stages == 0..(NumStages - 1)
NoTag == <<-1, "none">>
NoLoss == [wa |-> RInt(0), wb |-> RInt(0), ta |-> <<>>, tb |-> <<>>, val |-> RInt(0)]
NoMix == [mixed |-> FALSE, up |-> <<>>, rand_index |-> <<>>, W_f |-> 0, H_f |-> 0,
          radius |-> 0, num_proposals |-> 0, target_fmap |-> NoTag,
          target_gradients |-> NoTag]
NoRet == [loss |-> RInt(0), acc |-> RInt(0)]
NoKw == [cut_prob |-> 0, radius |-> 0, num_proposals |-> 0, multiplier |-> 0,
         save_path |-> "None"]

(***************************************************************************)
(* optimizer, scheduler, Wrapper                                           *)
(***************************************************************************)
\* Mutant of ZeroGrad: the gradients are left in place.
ZeroGradKeeps(g) == g

\* optimizer.zero_grad()
ZeroGrad(g) == <<>>

\* loss.backward(): the gradient of l is added to .grad
GradOf(l) == Abs(l.val[1])
Backward(g, l, pass) == Append(g, [pass |-> pass, g |-> GradOf(l)])

GradSum(g) == SumSeq([k \in 1..Len(g) |-> g[k].g])
GradPasses(g) == [k \in 1..Len(g) |-> g[k].pass]

\* optimizer.step(): SGD with momentum
StepMomentum(m, g) == (m + GradSum(g)) % NumClasses
StepParams(p, m, g) == (p + StepMomentum(m, g)) % NumClasses

\* Wrapper hooks: a forward pass records every stage's activation, a backward
\* pass every stage's gradient; clear_dict() drops both.
HookForward(tag) == [s \in Stages |-> tag]
HookBackward(tag) == [s \in Stages |-> tag]
ClearDict == [s \in Stages |-> NoTag]

\* criterion(pred, labels)
PlainLoss(pm, lab) ==
    [wa |-> RInt(1), wb |-> RInt(0), ta |-> lab, tb |-> lab, val |-> Criterion(pm, lab)]

\* criterion(pred, target_a) * wa + criterion(pred, target_b) * wb
MixedLoss(pm, ta, wa, tb, wb) ==
    [wa |-> wa, wb |-> wb, ta |-> ta, tb |-> tb,
     val |-> RAdd(RMul(Criterion(pm, ta), wa), RMul(Criterion(pm, tb), wb))]

\* Mutant of StageLoss: the labels are mixed on every stage.
StageLossAlwaysMixed(stage, pm, ta, wa, tb, wb) == MixedLoss(pm, ta, wa, tb, wb)

\* if target_stage_index < 3: loss on the original labels, else the mixed loss
StageLoss(stage, pm, ta, wa, tb, wb) ==
    IF stage < FineStages THEN PlainLoss(pm, ta) ELSE MixedLoss(pm, ta, wa, tb, wb)

\* torch.sum(pred_max == labels)
Corrects(pm, lab) == Cardinality({k \in 1..Len(pm) : pm[k] = lab[k]})

\* Mutant of Augment: r <= cut_prob.
AugmentInclusive(r_num, cut_num) == r_num <= cut_num

\* r < cut_prob, both in halves
Augment(r_num, cut_num) == r_num < cut_num

\* Mutant of EpochResult: the accuracy divided like the loss, by the batch count.
EpochResultPerBatch(total, n_batches, corrects, samples) ==
    [loss |-> RDiv(total, n_batches), acc |-> Norm(<<corrects, n_batches>>)]

\* epoch loss and accuracy returned by every loop
EpochResult(total, n_batches, corrects, samples) ==
    [loss |-> RDiv(total, n_batches), acc |-> Norm(<<corrects, samples>>)]

NoArgs == [train_mode |-> "none", net_type |-> "none", num_epochs |-> 0,
           cut_prob |-> 0, radius |-> 0, num_proposals |-> 0]
NoLoaders == [train |-> <<>>, valid |-> <<>>]
NoRef == [f |-> "none", params0 |-> 0, trace |-> <<>>, params |-> 0, momentum |-> 0,
          last_epoch |-> 0, ret |-> NoRet]

\* The model, optimizer and scheduler as constructed, no function running.
InitCore ==
    /\ params \in 0..(NumClasses - 1) /\ momentum = 0 /\ grad = <<>> /\ last_epoch = 0
    /\ training = TRUE
    /\ dict_activation = ClearDict /\ dict_gradients = ClearDict
    /\ fn = "none" /\ pc = "idle" /\ kw = NoKw /\ train_loader = <<>> /\ cur_epoch = 0
    /\ idx = 0 /\ batch = <<>> /\ labels = <<>> /\ pred_max = <<>>
    /\ loss = NoLoss /\ mix = NoMix
    /\ final_radius = 0 /\ target_stage_index = -1
    /\ train_loss = RInt(0) /\ n_corrects = 0 /\ n_samples = 0
    /\ ret = NoRet /\ exc = "none"
    /\ trace = <<>> /\ applied = <<>>
    /\ calls = 0
    /\ epoch = 0 /\ best_valid_acc = RInt(0)
    /\ epoch_train = NoRet /\ epoch_valid = NoRet
    /\ defined = {} /\ logs = <<>> /\ saves = <<>> /\ output = <<>>
    /\ dexc = "none"

Init ==
    /\ InitCore
    /\ dpc = "off" /\ args = NoArgs /\ d_loaders = NoLoaders
    /\ ref = NoRef

(***************************************************************************)
(* The caller of the trainer functions: any function, any arguments.       *)
(***************************************************************************)
TrainFns == {"train", "train_CutMix", "train_HybridPartSwapping", "train_HybridCutMix"}

\* A fresh frame of f: its arguments bound, its locals not yet assigned.
Enter(f, loader, ep, kwargs) ==
    /\ fn' = f /\ train_loader' = loader /\ cur_epoch' = ep /\ kw' = kwargs
    /\ pc' = "entry" /\ idx' = 0
    /\ batch' = <<>> /\ labels' = <<>> /\ pred_max' = <<>>
    /\ loss' = NoLoss /\ mix' = NoMix /\ target_stage_index' = -1
    /\ train_loss' = RInt(0) /\ n_corrects' = 0 /\ n_samples' = 0
    /\ final_radius' = 0
    /\ ret' = NoRet /\ trace' = <<>> /\ applied' = <<>>

\* One epoch of any training function on a freshly built model.
CallTrain ==
    /\ pc = "idle"
    /\ calls < MaxCalls
    /\ calls' = calls + 1
    /\ \E f \in TrainFns, loader \in Loaders, ep \in Epochs,
          cp \in CutProbs, rad \in Radii, np \in Proposals :
          /\ f = "train" => cp = 0 /\ rad = 0 /\ np = 1
          /\ f = "train_CutMix" => rad = 0 /\ np = 1
          /\ Enter(f, loader, ep,
                   [cut_prob |-> cp, radius |-> rad, num_proposals |-> np,
                    multiplier |-> np, save_path |-> "dir"])
    /\ UNCHANGED <<modelVars, exc, callerVars>>

\* Any number of evaluations, before or after the training epoch.
CallTest ==
    /\ pc \in {"idle", "returned"}
    /\ calls < MaxCalls
    /\ calls' = calls + 1
    /\ \E loader \in Loaders, sp \in {"None", "dir"},
          ep \in (IF pc = "idle" THEN Epochs ELSE {cur_epoch}) :
          Enter("test", loader, ep, [NoKw EXCEPT !.save_path = sp])
    /\ UNCHANGED <<modelVars, exc, callerVars>>

(***************************************************************************)
(* train(): the vanilla loop.  src/utils/trainer.py 248-299                *)
(***************************************************************************)
train_Begin ==
    /\ fn = "train" /\ pc = "entry"
    /\ training' = TRUE
    /\ trace' = Append(trace, "train")
    /\ train_loss' = RInt(0) /\ n_corrects' = 0 /\ n_samples' = 0
    /\ pc' = "loop"
    /\ UNCHANGED <<params, momentum, grad, last_epoch, dict_activation, dict_gradients,
                   argVars, batchVars, idx, final_radius, ret, exc, applied, calls, callerVars>>

train_Forward ==
    /\ fn = "train" /\ pc = "loop" /\ idx < Len(train_loader)
    /\ mix' = NoMix
    /\ LET b == BatchImages(train_loader[idx + 1])
           lab == BatchLabels(train_loader[idx + 1])
           pm == Forward(params, b)
       IN  /\ batch' = b /\ labels' = lab
           /\ grad' = ZeroGrad(grad)
           /\ pred_max' = pm
           /\ dict_activation' = HookForward(<<idx, "first">>)
           /\ loss' = PlainLoss(pm, lab)
    /\ trace' = trace \o <<"zero_grad", "forward">>
    /\ pc' = "viz"
    /\ UNCHANGED <<params, momentum, last_epoch, training, dict_gradients, argVars,
                   target_stage_index, accVars, idx, final_radius, ret, exc,
                   applied, calls, callerVars>>

train_Viz ==
    /\ fn = "train" /\ pc = "viz"
    /\ \/ /\ idx % VizIdxTrain = 0 /\ cur_epoch % VizEpochTrain = 0
          /\ \/ /\ trace' = Append(trace, "savefig")
                /\ pc' = "update"
                /\ UNCHANGED exc
             \/ /\ trace' = Append(trace, "savefig")
                /\ exc' = "savefig"
                /\ pc' = "raised"
       \/ /\ ~(idx % VizIdxTrain = 0 /\ cur_epoch % VizEpochTrain = 0)
          /\ pc' = "update"
          /\ UNCHANGED <<trace, exc>>
    /\ UNCHANGED <<modelVars, argVars, batchVars, accVars, idx, final_radius, ret,
                   applied, calls, callerVars>>

\* Mutant of train_Update: scheduler.step() indented into the batch loop.
train_Update_SchedInLoop ==
    /\ fn = "train" /\ pc = "update"
    /\ train_loss' = RAdd(train_loss, loss.val)
    /\ n_samples' = n_samples + Len(labels)
    /\ n_corrects' = n_corrects + Corrects(pred_max, labels)
    /\ LET g == Backward(grad, loss, "final")
       IN  /\ grad' = g
           /\ dict_gradients' = HookBackward(<<idx, "final">>)
           /\ momentum' = StepMomentum(momentum, g)
           /\ params' = StepParams(params, momentum, g)
           /\ applied' = GradPasses(g)
    /\ last_epoch' = last_epoch + 1
    /\ trace' = trace \o <<"backward", "step", "sched">>
    /\ idx' = idx + 1
    /\ pc' = "loop"
    /\ UNCHANGED <<training, dict_activation, argVars, batchVars,
                   final_radius, ret, exc, calls, callerVars>>

train_Update ==
    /\ fn = "train" /\ pc = "update"
    /\ train_loss' = RAdd(train_loss, loss.val)
    /\ n_samples' = n_samples + Len(labels)
    /\ n_corrects' = n_corrects + Corrects(pred_max, labels)
    /\ LET g == Backward(grad, loss, "final")
       IN  /\ grad' = g
           /\ dict_gradients' = HookBackward(<<idx, "final">>)
           /\ momentum' = StepMomentum(momentum, g)
           /\ params' = StepParams(params, momentum, g)
           /\ applied' = GradPasses(g)
    /\ trace' = trace \o <<"backward", "step">>
    /\ idx' = idx + 1
    /\ pc' = "loop"
    /\ UNCHANGED <<last_epoch, training, dict_activation, argVars, batchVars,
                   final_radius, ret, exc, calls, callerVars>>

train_Finish ==
    /\ fn = "train" /\ pc = "loop" /\ idx = Len(train_loader)
    /\ last_epoch' = last_epoch + 1
    /\ trace' = Append(trace, "sched")
    /\ ret' = EpochResult(train_loss, Len(train_loader), n_corrects, n_samples)
    /\ batch' = <<>> /\ labels' = <<>> /\ pred_max' = <<>>
    /\ loss' = NoLoss /\ mix' = NoMix /\ target_stage_index' = -1
    /\ pc' = "returned"
    /\ UNCHANGED <<params, momentum, grad, training, dict_activation, dict_gradients,
                   argVars, accVars, idx, final_radius, exc, applied, calls, callerVars>>

(***************************************************************************)
(* test(): the evaluation loop.  src/utils/trainer.py 377-416              *)
(***************************************************************************)
test_Begin ==
    /\ fn = "test" /\ pc = "entry"
    /\ train_loss' = RInt(0) /\ n_corrects' = 0 /\ n_samples' = 0
    /\ training' = FALSE
    /\ trace' = Append(trace, "eval")
    /\ pc' = "loop"
    /\ UNCHANGED <<params, momentum, grad, last_epoch, dict_activation, dict_gradients,
                   argVars, batchVars, idx, final_radius, ret, exc, applied, calls, callerVars>>

\* Mutant of test_Forward: the batch is also back-propagated and stepped.
test_Forward_Training ==
    /\ fn = "test" /\ pc = "loop" /\ idx < Len(train_loader)
    /\ mix' = NoMix
    /\ LET b == BatchImages(train_loader[idx + 1])
           lab == BatchLabels(train_loader[idx + 1])
           pm == Forward(params, b)
           l == PlainLoss(pm, lab)
           g == Backward(grad, l, "final")
       IN  /\ batch' = b /\ labels' = lab
           /\ pred_max' = pm
           /\ dict_activation' = HookForward(<<idx, "first">>)
           /\ loss' = l
           /\ train_loss' = RAdd(train_loss, l.val)
           /\ n_samples' = n_samples + Len(lab)
           /\ n_corrects' = n_corrects + Corrects(pm, lab)
           /\ grad' = g
           /\ momentum' = StepMomentum(momentum, g)
           /\ params' = StepParams(params, momentum, g)
    /\ trace' = trace \o <<"forward", "backward", "step">>
    /\ pc' = "viz"
    /\ UNCHANGED <<last_epoch, training, dict_gradients, argVars,
                   target_stage_index, idx, final_radius, ret, exc, applied, calls,
                   callerVars>>

test_Forward ==
    /\ fn = "test" /\ pc = "loop" /\ idx < Len(train_loader)
    /\ mix' = NoMix
    /\ LET b == BatchImages(train_loader[idx + 1])
           lab == BatchLabels(train_loader[idx + 1])
           pm == Forward(params, b)
           l == PlainLoss(pm, lab)
       IN  /\ batch' = b /\ labels' = lab
           /\ pred_max' = pm
           /\ dict_activation' = HookForward(<<idx, "first">>)
           /\ loss' = l
           /\ train_loss' = RAdd(train_loss, l.val)
           /\ n_samples' = n_samples + Len(lab)
           /\ n_corrects' = n_corrects + Corrects(pm, lab)
    /\ trace' = Append(trace, "forward")
    /\ pc' = "viz"
    /\ UNCHANGED <<params, momentum, grad, last_epoch, training, dict_gradients, argVars,
                   target_stage_index, idx, final_radius, ret, exc, applied, calls, callerVars>>

test_Viz ==
    /\ fn = "test" /\ pc = "viz"
    /\ \/ /\ kw.save_path # "None"
          /\ idx % VizIdxTest = 0 /\ cur_epoch % VizEpochTest = 0
          /\ \/ /\ trace' = Append(trace, "savefig")
                /\ pc' = "loop"
                /\ idx' = idx + 1
                /\ UNCHANGED exc
             \/ /\ trace' = Append(trace, "savefig")
                /\ exc' = "savefig"
                /\ pc' = "raised"
                /\ UNCHANGED idx
       \/ /\ ~(kw.save_path # "None"
               /\ idx % VizIdxTest = 0 /\ cur_epoch % VizEpochTest = 0)
          /\ pc' = "loop"
          /\ idx' = idx + 1
          /\ UNCHANGED <<trace, exc>>
    /\ UNCHANGED <<modelVars, argVars, batchVars, accVars, final_radius, ret,
                   applied, calls, callerVars>>

test_Finish ==
    /\ fn = "test" /\ pc = "loop" /\ idx = Len(train_loader)
    /\ ret' = EpochResult(train_loss, Len(train_loader), n_corrects, n_samples)
    /\ batch' = <<>> /\ labels' = <<>> /\ pred_max' = <<>>
    /\ loss' = NoLoss /\ mix' = NoMix /\ target_stage_index' = -1
    /\ pc' = "returned"
    /\ UNCHANGED <<modelVars, argVars, accVars, idx, final_radius, exc, trace,
                   applied, calls, callerVars>>

(***************************************************************************)
(* train_CutMix().  src/utils/trainer.py 301-375                           *)
(***************************************************************************)
Cuts == {0, ImgSide \div 2, ImgSide}      \* int(W * sqrt(1 - lam)), lam ~ Beta(1, 1)
Centres == {<<0, 0>>, <<ImgSide \div 2, ImgSide \div 2>>, <<ImgSide - 1, 0>>}

\* 1 - ((bbx2 - bbx1) * (bby2 - bby1) / (batch.size()[-1] * batch.size()[-2]))
AdjustedLam(bb) ==
    RSub(RInt(1), Norm(<<(bb[3] - bb[1]) * (bb[4] - bb[2]), ImgSide * ImgSide>>))

CutMix_Begin ==
    /\ fn = "train_CutMix" /\ pc = "entry"
    /\ training' = TRUE
    /\ trace' = Append(trace, "train")
    /\ train_loss' = RInt(0) /\ n_corrects' = 0 /\ n_samples' = 0
    /\ pc' = "loop"
    /\ UNCHANGED <<params, momentum, grad, last_epoch, dict_activation, dict_gradients,
                   argVars, batchVars, idx, final_radius, ret, exc, applied, calls, callerVars>>

CutMix_Draw ==
    /\ fn = "train_CutMix" /\ pc = "loop" /\ idx < Len(train_loader)
    /\ mix' = NoMix
    /\ batch' = BatchImages(train_loader[idx + 1])
    /\ labels' = BatchLabels(train_loader[idx + 1])
    /\ grad' = ZeroGrad(grad)
    /\ trace' = Append(trace, "zero_grad")
    /\ \E r \in RDraws :
          pc' = IF Augment(r, kw.cut_prob) THEN "mix" ELSE "plain"
    /\ UNCHANGED <<params, momentum, last_epoch, training, dict_activation,
                   dict_gradients, argVars, pred_max, loss, target_stage_index,
                   accVars, idx, final_radius, ret, exc, applied, calls, callerVars>>

CutMix_Mix ==
    /\ fn = "train_CutMix" /\ pc = "mix"
    /\ \E cut \in Cuts, c \in Centres, rand_index \in Perms(Len(batch)) :
          LET bb == rand_bbox(cut, c[1], c[2])
              mixed == [k \in 1..Len(batch) |->
                            PasteBox(batch[k], batch[rand_index[k]], bb)]
              lam == AdjustedLam(bb)
              labels_b == [k \in 1..Len(labels) |-> labels[rand_index[k]]]
              pm == Forward(params, mixed)
          IN  /\ batch' = mixed
              /\ pred_max' = pm
              /\ loss' = MixedLoss(pm, labels, lam, labels_b, RSub(RInt(1), lam))
              /\ mix' = [mixed |-> TRUE,
                         up |-> [k \in 1..Len(batch) |->
                                    [q \in Pix |-> IF InBox(q, bb) THEN 0 ELSE 1]],
                         rand_index |-> rand_index, W_f |-> ImgSide, H_f |-> ImgSide,
                         radius |-> 0, num_proposals |-> 0, target_fmap |-> NoTag,
                         target_gradients |-> NoTag]
    /\ dict_activation' = HookForward(<<idx, "first">>)
    /\ trace' = Append(trace, "forward")
    /\ pc' = "viz"
    /\ UNCHANGED <<params, momentum, grad, last_epoch, training, dict_gradients,
                   argVars, labels, target_stage_index, accVars, idx, final_radius,
                   ret, exc, applied, calls, callerVars>>

CutMix_Plain ==
    /\ fn = "train_CutMix" /\ pc = "plain"
    /\ LET pm == Forward(params, batch)
       IN  /\ pred_max' = pm
           /\ loss' = PlainLoss(pm, labels)
    /\ dict_activation' = HookForward(<<idx, "first">>)
    /\ trace' = Append(trace, "forward")
    /\ pc' = "viz"
    /\ UNCHANGED <<params, momentum, grad, last_epoch, training, dict_gradients,
                   argVars, batch, labels, mix, target_stage_index, accVars, idx,
                   final_radius, ret, exc, applied, calls, callerVars>>

CutMix_Viz ==
    /\ fn = "train_CutMix" /\ pc = "viz"
    /\ \/ /\ idx % VizIdxTrain = 0 /\ cur_epoch % VizEpochTrain = 0
          /\ \/ /\ trace' = Append(trace, "savefig")
                /\ pc' = "update"
                /\ UNCHANGED exc
             \/ /\ trace' = Append(trace, "savefig")
                /\ exc' = "savefig"
                /\ pc' = "raised"
       \/ /\ ~(idx % VizIdxTrain = 0 /\ cur_epoch % VizEpochTrain = 0)
          /\ pc' = "update"
          /\ UNCHANGED <<trace, exc>>
    /\ UNCHANGED <<modelVars, argVars, batchVars, accVars, idx, final_radius, ret,
                   applied, calls, callerVars>>

CutMix_Update ==
    /\ fn = "train_CutMix" /\ pc = "update"
    /\ LET g == Backward(grad, loss, "final")
       IN  /\ grad' = g
           /\ dict_gradients' = HookBackward(<<idx, "final">>)
           /\ momentum' = StepMomentum(momentum, g)
           /\ params' = StepParams(params, momentum, g)
           /\ applied' = GradPasses(g)
    /\ trace' = trace \o <<"backward", "step">>
    /\ train_loss' = RAdd(train_loss, loss.val)
    /\ n_samples' = n_samples + Len(labels)
    /\ n_corrects' = n_corrects + Corrects(pred_max, labels)
    /\ idx' = idx + 1
    /\ pc' = "loop"
    /\ UNCHANGED <<last_epoch, training, dict_activation, argVars, batchVars,
                   final_radius, ret, exc, calls, callerVars>>

CutMix_Finish ==
    /\ fn = "train_CutMix" /\ pc = "loop" /\ idx = Len(train_loader)
    /\ last_epoch' = last_epoch + 1
    /\ trace' = Append(trace, "sched")
    /\ ret' = EpochResult(train_loss, Len(train_loader), n_corrects, n_samples)
    /\ batch' = <<>> /\ labels' = <<>> /\ pred_max' = <<>>
    /\ loss' = NoLoss /\ mix' = NoMix /\ target_stage_index' = -1
    /\ pc' = "returned"
    /\ UNCHANGED <<params, momentum, grad, training, dict_activation, dict_gradients,
                   argVars, accVars, idx, final_radius, exc, applied, calls, callerVars>>

(***************************************************************************)
(* Inputs of the attention-guided branches that come from the backbone:    *)
(* the stage's spatial shape and its class activation map.                 *)
(***************************************************************************)
FmapSides == {w \in 1..ImgSide : ImgSide % w = 0}   \* W_f = H_f of target_fmap
CamIds == 0..2

\* F.relu(sum(fmap * weights)): 0 flat zero, 1 one peak in the middle,
\* 2 a peak in the first corner and a lower one in the last.
CamOf(c, W, H) ==
    [q \in Grid(W, H) |->
        CASE c = 0 -> 0
          [] c = 1 -> IF q = <<W \div 2, H \div 2>> THEN 2 ELSE 0
          [] OTHER -> IF q = <<0, 0>> THEN 2
                      ELSE IF q = <<W - 1, H - 1>> THEN 1 ELSE 0]

\* generate_attentive_mask called without allow_boundary: its default
DefaultAllowBoundary == TRUE

\* n_mix / (W_f * H_f) with n_mix = (radius + 1) ** 2
MixRatio(radius, W_f, H_f) == Norm(<<(radius + 1) * (radius + 1), W_f * H_f>>)

\* (1 - (n_non_zero_pixels / n_total_pixels)).mean()
OcclusionRatio(masks, W_f, H_f) ==
    RMean([k \in 1..Len(masks) |->
              RSub(RInt(1),
                   Norm(<<Cardinality({q \in Grid(W_f, H_f) : masks[k][q] # 0}),
                          W_f * H_f>>))])

(***************************************************************************)
(* train_HybridPartSwapping().  src/utils/trainer.py 12-125                *)
(***************************************************************************)
HPS_Begin ==
    /\ fn = "train_HybridPartSwapping" /\ pc = "entry"
    /\ training' = TRUE
    /\ trace' = Append(trace, "train")
    /\ train_loss' = RInt(0) /\ n_corrects' = 0 /\ n_samples' = 0
    /\ pc' = "loop"
    /\ UNCHANGED <<params, momentum, grad, last_epoch, dict_activation, dict_gradients,
                   argVars, batchVars, idx, final_radius, ret, exc, applied, calls, callerVars>>

HPS_Forward ==
    /\ fn = "train_HybridPartSwapping" /\ pc = "loop" /\ idx < Len(train_loader)
    /\ mix' = NoMix
    /\ LET b == BatchImages(train_loader[idx + 1])
       IN  /\ batch' = b
           /\ labels' = BatchLabels(train_loader[idx + 1])
           /\ pred_max' = Forward(params, b)
    /\ grad' = ZeroGrad(grad)
    /\ dict_activation' = HookForward(<<idx, "first">>)
    /\ trace' = trace \o <<"zero_grad", "forward">>
    /\ \E r \in RDraws :
          pc' = IF Augment(r, kw.cut_prob) THEN "pre" ELSE "plain"
    /\ UNCHANGED <<params, momentum, last_epoch, training, dict_gradients, argVars,
                   loss, target_stage_index, accVars, idx, final_radius, ret, exc,
                   applied, calls, callerVars>>

\* Mutant of HPS_PrePass: the cache is read before the pre-pass backward ran.
HPS_PrePass_ReadBeforeBackward ==
    /\ fn = "train_HybridPartSwapping" /\ pc = "pre"
    /\ target_stage_index' = NumStages - 1
    /\ LET l == PlainLoss(pred_max, labels)
           g == Backward(grad, l, "pre")
       IN  /\ loss' = l
           /\ mix' = [NoMix EXCEPT !.target_fmap = dict_activation[NumStages - 1],
                                   !.target_gradients = dict_gradients[NumStages - 1]]
           /\ grad' = ZeroGrad(g)
           /\ dict_activation' = ClearDict
           /\ dict_gradients' = ClearDict
    /\ trace' = trace \o <<"backward", "zero_grad", "clear_dict">>
    /\ pc' = "mix"
    /\ UNCHANGED <<params, momentum, last_epoch, training, argVars, batch, labels,
                   pred_max, accVars, idx, final_radius, ret, exc, applied, calls, callerVars>>

HPS_PrePass ==
    /\ fn = "train_HybridPartSwapping" /\ pc = "pre"
    /\ target_stage_index' = NumStages - 1
    /\ LET l == PlainLoss(pred_max, labels)
           g == Backward(grad, l, "pre")
           grads == HookBackward(<<idx, "pre">>)
       IN  /\ loss' = l
           /\ mix' = [NoMix EXCEPT !.target_fmap = dict_activation[NumStages - 1],
                                   !.target_gradients = grads[NumStages - 1]]
           /\ grad' = ZeroGrad(g)
           /\ dict_activation' = ClearDict
           /\ dict_gradients' = ClearDict
    /\ trace' = trace \o <<"backward", "zero_grad", "clear_dict">>
    /\ pc' = "mix"
    /\ UNCHANGED <<params, momentum, last_epoch, training, argVars, batch, labels,
                   pred_max, accVars, idx, final_radius, ret, exc, applied, calls, callerVars>>

HPS_Mix ==
    /\ fn = "train_HybridPartSwapping" /\ pc = "mix"
    /\ \E W_f \in FmapSides, cams \in [1..Len(batch) -> CamIds],
          rand_index \in Perms(Len(batch)) :
          LET H_f == W_f
              radius == kw.radius
              num_proposals == kw.num_proposals
              attention_masks ==
                  [k \in 1..Len(batch) |->
                      generate_attentive_mask(CamOf(cams[k], W_f, H_f), radius,
                                              num_proposals, FALSE, W_f, H_f)]
              up == [k \in 1..Len(batch) |-> Interpolate(attention_masks[k], W_f, H_f)]
              mix_ratio == MixRatio(radius, W_f, H_f)
              mixed == [k \in 1..Len(batch) |->
                           Blend(up[k], batch[k], batch[rand_index[k]])]
              target_b == [k \in 1..Len(labels) |-> labels[rand_index[k]]]
              pm == Forward(params, mixed)
          IN  /\ batch' = mixed
              /\ pred_max' = pm
              /\ mix' = [mix EXCEPT !.mixed = TRUE, !.up = up,
                                    !.rand_index = rand_index,
                                    !.W_f = W_f, !.H_f = H_f, !.radius = radius,
                                    !.num_proposals = num_proposals]
              /\ loss' = StageLoss(target_stage_index, pm, labels, mix_ratio,
                                    target_b, RSub(RInt(1), mix_ratio))
    /\ dict_activation' = HookForward(<<idx, "second">>)
    /\ trace' = Append(trace, "forward")
    /\ pc' = "viz"
    /\ UNCHANGED <<params, momentum, grad, last_epoch, training, dict_gradients,
                   argVars, labels, target_stage_index, accVars, idx, final_radius,
                   ret, exc, applied, calls, callerVars>>

HPS_Plain ==
    /\ fn = "train_HybridPartSwapping" /\ pc = "plain"
    /\ loss' = PlainLoss(pred_max, labels)
    /\ pc' = "viz"
    /\ UNCHANGED <<modelVars, argVars, batch, labels, pred_max, mix,
                   target_stage_index, accVars, idx, final_radius, ret, exc, trace,
                   applied, calls, callerVars>>

HPS_Viz ==
    /\ fn = "train_HybridPartSwapping" /\ pc = "viz"
    /\ \/ /\ idx % VizIdxHybrid = 0 /\ cur_epoch % VizEpochHPS = 0
          /\ \/ /\ trace' = Append(trace, "savefig")
                /\ pc' = "update"
                /\ UNCHANGED exc
             \/ /\ trace' = Append(trace, "savefig")
                /\ exc' = "savefig"
                /\ pc' = "raised"
       \/ /\ ~(idx % VizIdxHybrid = 0 /\ cur_epoch % VizEpochHPS = 0)
          /\ pc' = "update"
          /\ UNCHANGED <<trace, exc>>
    /\ UNCHANGED <<modelVars, argVars, batchVars, accVars, idx, final_radius, ret,
                   applied, calls, callerVars>>

HPS_Update ==
    /\ fn = "train_HybridPartSwapping" /\ pc = "update"
    /\ train_loss' = RAdd(train_loss, loss.val)
    /\ n_samples' = n_samples + Len(labels)
    /\ n_corrects' = n_corrects + Corrects(pred_max, labels)
    /\ LET g == Backward(ZeroGrad(grad), loss, "final")
       IN  /\ grad' = g
           /\ dict_gradients' = HookBackward(<<idx, "final">>)
           /\ momentum' = StepMomentum(momentum, g)
           /\ params' = StepParams(params, momentum, g)
           /\ applied' = GradPasses(g)
    /\ trace' = trace \o <<"zero_grad", "backward", "step">>
    /\ idx' = idx + 1
    /\ pc' = "loop"
    /\ UNCHANGED <<last_epoch, training, dict_activation, argVars, batchVars,
                   final_radius, ret, exc, calls, callerVars>>

HPS_Finish ==
    /\ fn = "train_HybridPartSwapping" /\ pc = "loop" /\ idx = Len(train_loader)
    /\ last_epoch' = last_epoch + 1
    /\ trace' = Append(trace, "sched")
    /\ ret' = EpochResult(train_loss, Len(train_loader), n_corrects, n_samples)
    /\ batch' = <<>> /\ labels' = <<>> /\ pred_max' = <<>>
    /\ loss' = NoLoss /\ mix' = NoMix /\ target_stage_index' = -1
    /\ pc' = "returned"
    /\ UNCHANGED <<params, momentum, grad, training, dict_activation, dict_gradients,
                   argVars, accVars, idx, final_radius, exc, applied, calls, callerVars>>

(***************************************************************************)
(* train_HybridCutMix().  src/utils/trainer.py 127-246                     *)
(***************************************************************************)
HCM_Begin ==
    /\ fn = "train_HybridCutMix" /\ pc = "entry"
    /\ final_radius' = kw.radius
    /\ training' = TRUE
    /\ trace' = Append(trace, "train")
    /\ train_loss' = RInt(0) /\ n_corrects' = 0 /\ n_samples' = 0
    /\ pc' = "loop"
    /\ UNCHANGED <<params, momentum, grad, last_epoch, dict_activation, dict_gradients,
                   argVars, batchVars, idx, ret, exc, applied, calls, callerVars>>

HCM_Forward ==
    /\ fn = "train_HybridCutMix" /\ pc = "loop" /\ idx < Len(train_loader)
    /\ mix' = NoMix
    /\ LET b == BatchImages(train_loader[idx + 1])
       IN  /\ batch' = b
           /\ labels' = BatchLabels(train_loader[idx + 1])
           /\ pred_max' = Forward(params, b)
    /\ grad' = ZeroGrad(grad)
    /\ dict_activation' = HookForward(<<idx, "first">>)
    /\ trace' = trace \o <<"zero_grad", "forward">>
    /\ \E r \in RDraws :
          pc' = IF Augment(r, kw.cut_prob) THEN "pre" ELSE "plain"
    /\ UNCHANGED <<params, momentum, last_epoch, training, dict_gradients, argVars,
                   loss, target_stage_index, accVars, idx, final_radius, ret, exc,
                   applied, calls, callerVars>>

\* final_radius * (model.num_stages - target_stage_index), // 4 on a fine stage
ScaledRadius(rad, stage) ==
    LET scaled == rad * (NumStages - stage)
    IN  IF stage < FineStages THEN scaled \div 4 ELSE scaled

HCM_PrePass ==
    /\ fn = "train_HybridCutMix" /\ pc = "pre"
    /\ \E stage \in 1..(NumStages - 1) :
          /\ target_stage_index' = stage
          /\ final_radius' = ScaledRadius(final_radius, stage)
          /\ mix' = [NoMix EXCEPT !.radius = ScaledRadius(final_radius, stage),
                                  !.num_proposals = (NumStages - stage) * kw.multiplier,
                                  !.target_fmap = dict_activation[stage],
                                  !.target_gradients = HookBackward(<<idx, "pre">>)[stage]]
    /\ LET l == PlainLoss(pred_max, labels)
           g == Backward(grad, l, "pre")
       IN  /\ loss' = l
           /\ grad' = ZeroGrad(g)
           /\ dict_activation' = ClearDict
           /\ dict_gradients' = ClearDict
    /\ trace' = trace \o <<"backward", "zero_grad", "clear_dict">>
    /\ pc' = "mix"
    /\ UNCHANGED <<params, momentum, last_epoch, training, argVars, batch, labels,
                   pred_max, accVars, idx, ret, exc, applied, calls, callerVars>>

HCM_Mix ==
    /\ fn = "train_HybridCutMix" /\ pc = "mix"
    /\ \E W_f \in FmapSides, cams \in [1..Len(batch) -> CamIds],
          rand_index \in Perms(Len(batch)) :
          LET H_f == W_f
              attention_masks ==
                  [k \in 1..Len(batch) |->
                      generate_attentive_mask(CamOf(cams[k], W_f, H_f), mix.radius,
                                              mix.num_proposals, DefaultAllowBoundary,
                                              W_f, H_f)]
              up == [k \in 1..Len(batch) |-> Interpolate(attention_masks[k], W_f, H_f)]
              occlusion_ratio == OcclusionRatio(attention_masks, W_f, H_f)
              mixed == [k \in 1..Len(batch) |->
                           Blend(up[k], batch[k], batch[rand_index[k]])]
              target_b == [k \in 1..Len(labels) |-> labels[rand_index[k]]]
              pm == Forward(params, mixed)
          IN  /\ batch' = mixed
              /\ pred_max' = pm
              /\ mix' = [mix EXCEPT !.mixed = TRUE, !.up = up,
                                    !.rand_index = rand_index,
                                    !.W_f = W_f, !.H_f = H_f]
              /\ loss' = StageLoss(target_stage_index, pm, labels,
                                    RSub(RInt(1), occlusion_ratio),
                                    target_b, occlusion_ratio)
    /\ dict_activation' = HookForward(<<idx, "second">>)
    /\ trace' = Append(trace, "forward")
    /\ pc' = "viz"
    /\ UNCHANGED <<params, momentum, grad, last_epoch, training, dict_gradients,
                   argVars, labels, target_stage_index, accVars, idx, final_radius,
                   ret, exc, applied, calls, callerVars>>

HCM_Plain ==
    /\ fn = "train_HybridCutMix" /\ pc = "plain"
    /\ loss' = PlainLoss(pred_max, labels)
    /\ pc' = "viz"
    /\ UNCHANGED <<modelVars, argVars, batch, labels, pred_max, mix,
                   target_stage_index, accVars, idx, final_radius, ret, exc, trace,
                   applied, calls, callerVars>>

HCM_Viz ==
    /\ fn = "train_HybridCutMix" /\ pc = "viz"
    /\ \/ /\ idx % VizIdxHybrid = 0 /\ cur_epoch % VizEpochHCM = 0
          /\ \/ /\ trace' = Append(trace, "savefig")
                /\ pc' = "update"
                /\ UNCHANGED exc
             \/ /\ trace' = Append(trace, "savefig")
                /\ exc' = "savefig"
                /\ pc' = "raised"
       \/ /\ ~(idx % VizIdxHybrid = 0 /\ cur_epoch % VizEpochHCM = 0)
          /\ pc' = "update"
          /\ UNCHANGED <<trace, exc>>
    /\ UNCHANGED <<modelVars, argVars, batchVars, accVars, idx, final_radius, ret,
                   applied, calls, callerVars>>

HCM_Update ==
    /\ fn = "train_HybridCutMix" /\ pc = "update"
    /\ train_loss' = RAdd(train_loss, loss.val)
    /\ n_samples' = n_samples + Len(labels)
    /\ n_corrects' = n_corrects + Corrects(pred_max, labels)
    /\ LET g == Backward(ZeroGrad(grad), loss, "final")
       IN  /\ grad' = g
           /\ dict_gradients' = HookBackward(<<idx, "final">>)
           /\ momentum' = StepMomentum(momentum, g)
           /\ params' = StepParams(params, momentum, g)
           /\ applied' = GradPasses(g)
    /\ trace' = trace \o <<"zero_grad", "backward", "step">>
    /\ idx' = idx + 1
    /\ pc' = "loop"
    /\ UNCHANGED <<last_epoch, training, dict_activation, argVars, batchVars,
                   final_radius, ret, exc, calls, callerVars>>

HCM_Finish ==
    /\ fn = "train_HybridCutMix" /\ pc = "loop" /\ idx = Len(train_loader)
    /\ last_epoch' = last_epoch + 1
    /\ trace' = Append(trace, "sched")
    /\ ret' = EpochResult(train_loss, Len(train_loader), n_corrects, n_samples)
    /\ batch' = <<>> /\ labels' = <<>> /\ pred_max' = <<>>
    /\ loss' = NoLoss /\ mix' = NoMix /\ target_stage_index' = -1
    /\ pc' = "returned"
    /\ UNCHANGED <<params, momentum, grad, training, dict_activation, dict_gradients,
                   argVars, accVars, idx, final_radius, exc, applied, calls, callerVars>>

Next ==
    \/ CallTrain \/ CallTest
    \/ train_Begin \/ train_Forward \/ train_Viz \/ train_Update \/ train_Finish
    \/ CutMix_Begin \/ CutMix_Draw \/ CutMix_Mix \/ CutMix_Plain \/ CutMix_Viz
    \/ CutMix_Update \/ CutMix_Finish
    \/ HPS_Begin \/ HPS_Forward \/ HPS_PrePass \/ HPS_Mix \/ HPS_Plain \/ HPS_Viz
    \/ HPS_Update \/ HPS_Finish
    \/ HCM_Begin \/ HCM_Forward \/ HCM_PrePass \/ HCM_Mix \/ HCM_Plain \/ HCM_Viz
    \/ HCM_Update \/ HCM_Finish
    \/ test_Begin \/ test_Forward \/ test_Viz \/ test_Finish

Spec == Init /\ [][Next]_vars

(***************************************************************************)
(* A strategy against the vanilla loop: train() runs one epoch, then the   *)
(* strategy runs the same epoch on an identical model, optimizer and data. *)
(***************************************************************************)
EquivCallVanilla ==
    /\ pc = "idle" /\ calls = 0
    /\ calls' = 1
    /\ \E f \in TrainFns \ {"train"}, loader \in Loaders, ep \in Epochs,
          cp \in CutProbs, rad \in Radii, np \in Proposals :
          /\ f = "train_CutMix" => rad = 0 /\ np = 1
          /\ ref' = [NoRef EXCEPT !.f = f, !.params0 = params]
          /\ Enter("train", loader, ep,
                   [cut_prob |-> cp, radius |-> rad, num_proposals |-> np,
                    multiplier |-> np, save_path |-> "dir"])
    /\ UNCHANGED <<modelVars, exc, dpc, args, defined, d_loaders, epoch, best_valid_acc,
                   epoch_train, epoch_valid, logs, saves, output, dexc>>

EquivCallStrategy ==
    /\ pc = "returned" /\ calls = 1 /\ fn = "train"
    /\ calls' = 2
    /\ ref' = [ref EXCEPT !.trace = trace, !.params = params, !.momentum = momentum,
                          !.last_epoch = last_epoch, !.ret = ret]
    /\ params' = ref.params0 /\ momentum' = 0 /\ grad' = <<>> /\ last_epoch' = 0
    /\ training' = TRUE
    /\ dict_activation' = ClearDict /\ dict_gradients' = ClearDict
    /\ Enter(ref.f, train_loader, cur_epoch, kw)
    /\ UNCHANGED <<exc, dpc, args, defined, d_loaders, epoch, best_valid_acc,
                   epoch_train, epoch_valid, logs, saves, output, dexc>>

InitEquiv == Init

NextEquiv ==
    \/ EquivCallVanilla \/ EquivCallStrategy
    \/ train_Begin \/ train_Forward \/ train_Viz \/ train_Update \/ train_Finish
    \/ CutMix_Begin \/ CutMix_Draw \/ CutMix_Mix \/ CutMix_Plain \/ CutMix_Viz
    \/ CutMix_Update \/ CutMix_Finish
    \/ HPS_Begin \/ HPS_Forward \/ HPS_PrePass \/ HPS_Mix \/ HPS_Plain \/ HPS_Viz
    \/ HPS_Update \/ HPS_Finish
    \/ HCM_Begin \/ HCM_Forward \/ HCM_PrePass \/ HCM_Mix \/ HCM_Plain \/ HCM_Viz
    \/ HCM_Update \/ HCM_Finish

SpecEquiv == InitEquiv /\ [][NextEquiv]_vars

(***************************************************************************)
(* The driver.  src/train.py                                               *)
(***************************************************************************)
TrainModes == {"vanilla", "cutmix", "hybrid", "mixup"}
NetTypes == {"resnet50", "vgg16", "resnet18", "alexnet"}
DriverArgs ==
    [train_mode : TrainModes, net_type : NetTypes, num_epochs : {0, MaxEpochs},
     cut_prob : {1}, radius : {1}, num_proposals : {1}]
DriverLoaders == [train : Loaders, valid : {Loader(MaxImages, bs) : bs \in BatchSizes}]

\* the branches that assign `model`: src/train.py 94-105
HasModel(net) == net \in {"resnet50", "mobilenetv2", "vgg16"}
\* the branches that assign `stage_names`: 'resnet' in net_type, or one of two names
HasStageNames(net) == net \in {"resnet50", "resnet18"} \/ net \in {"mobilenetv2", "vgg16"}
\* the branches of the dispatch that call a training function
ModeFn(mode) ==
    CASE mode = "vanilla" -> "train"
      [] mode = "cutmix" -> "train_CutMix"
      [] mode = "hybrid" -> "train_HybridPartSwapping"
      [] OTHER -> "none"

\* Mutant of Improved: a tie also counts.
ImprovedOrEqual(acc, best) == RLe(best, acc)

\* epoch_valid_acc > best_valid_acc
Improved(acc, best) == RLt(best, acc)

frameVars == <<modelVars, argVars, batchVars, accVars, pc, idx, final_radius, ret, exc,
               trace, applied, calls>>

InitDriver ==
    /\ InitCore
    /\ dpc = "start" /\ args \in DriverArgs /\ d_loaders \in DriverLoaders
    /\ ref = NoRef

D_Setup ==
    /\ dpc = "start"
    /\ output' = Append(output, "args")
    /\ dpc' = "loaders"
    /\ UNCHANGED <<frameVars, args, defined, d_loaders, epoch, best_valid_acc, epoch_train,
                   epoch_valid, logs, saves, dexc, ref>>

D_BuildLoaders ==
    /\ dpc = "loaders"
    /\ defined' = defined \cup {"train_loader", "valid_loader", "num_classes"}
    /\ output' = output \o <<"building loaders", "done">>
    /\ dpc' = "build"
    /\ UNCHANGED <<frameVars, args, d_loaders, epoch, best_valid_acc, epoch_train,
                   epoch_valid, logs, saves, dexc, ref>>

D_BuildModel ==
    /\ dpc = "build"
    /\ output' = Append(output, "building network")
    /\ defined' = IF HasModel(args.net_type) THEN defined \cup {"model"} ELSE defined
    /\ dpc' = "stages"
    /\ UNCHANGED <<frameVars, args, d_loaders, epoch, best_valid_acc, epoch_train,
                   epoch_valid, logs, saves, dexc, ref>>

D_StageNames ==
    /\ dpc = "stages"
    /\ defined' = IF HasStageNames(args.net_type) THEN defined \cup {"stage_names"}
                  ELSE defined
    /\ dpc' = "wrap"
    /\ UNCHANGED <<frameVars, args, d_loaders, epoch, best_valid_acc, epoch_train,
                   epoch_valid, logs, saves, output, dexc, ref>>

D_Wrap ==
    /\ dpc = "wrap"
    /\ \/ /\ {"model", "stage_names"} \subseteq defined
          /\ output' = Append(output, "done")
          /\ dpc' = "optim"
          /\ UNCHANGED dexc
       \/ /\ ~({"model", "stage_names"} \subseteq defined)
          /\ dexc' = "NameError"
          /\ dpc' = "aborted"
          /\ UNCHANGED output
    /\ UNCHANGED <<frameVars, args, defined, d_loaders, epoch, best_valid_acc, epoch_train,
                   epoch_valid, logs, saves, ref>>

D_BuildOptim ==
    /\ dpc = "optim"
    /\ logs' = <<"header">>
    /\ best_valid_acc' = RInt(0)
    /\ epoch' = 0
    /\ output' = output \o <<"building optimizer", "done", "start">>
    /\ dpc' = "epoch"
    /\ UNCHANGED <<frameVars, args, defined, d_loaders, epoch_train, epoch_valid, saves,
                   dexc, ref>>

D_EpochStart ==
    /\ dpc = "epoch" /\ epoch < args.num_epochs
    /\ output' = output \o <<"current epoch", "train phase">>
    /\ dpc' = "dispatch"
    /\ UNCHANGED <<frameVars, args, defined, d_loaders, epoch, best_valid_acc, epoch_train,
                   epoch_valid, logs, saves, dexc, ref>>

D_Dispatch ==
    /\ dpc = "dispatch"
    /\ \/ /\ ModeFn(args.train_mode) # "none"
          /\ Enter(ModeFn(args.train_mode), d_loaders.train, epoch,
                   [cut_prob |-> IF args.train_mode = "vanilla" THEN 0 ELSE args.cut_prob,
                    radius |-> IF args.train_mode = "hybrid" THEN args.radius ELSE 0,
                    num_proposals |-> IF args.train_mode = "hybrid"
                                      THEN args.num_proposals ELSE 1,
                    multiplier |-> 1, save_path |-> "dir"])
          /\ calls' = calls + 1
          /\ dpc' = "training"
          /\ UNCHANGED <<modelVars, exc>>
       \/ /\ ModeFn(args.train_mode) = "none"
          /\ dpc' = "after_train"
          /\ UNCHANGED frameVars
    /\ UNCHANGED <<args, defined, d_loaders, epoch, best_valid_acc, epoch_train,
                   epoch_valid, logs, saves, output, dexc, ref>>

D_TrainReturned ==
    /\ dpc = "training" /\ pc = "returned"
    /\ epoch_train' = ret
    /\ defined' = defined \cup {"epoch_train_loss", "epoch_train_acc"}
    /\ pc' = "idle"
    /\ dpc' = "after_train"
    /\ UNCHANGED <<modelVars, argVars, batchVars, accVars, idx, final_radius, ret, exc,
                   trace, applied, calls, args, d_loaders, epoch, best_valid_acc,
                   epoch_valid, logs, saves, output, dexc, ref>>

D_PrintTrain ==
    /\ dpc = "after_train"
    /\ \/ /\ "epoch_train_loss" \in defined
          /\ output' = output \o <<"training loss", "training accuracy">>
          /\ dpc' = "validate"
          /\ UNCHANGED dexc
       \/ /\ "epoch_train_loss" \notin defined
          /\ dexc' = "NameError"
          /\ dpc' = "aborted"
          /\ UNCHANGED output
    /\ UNCHANGED <<frameVars, args, defined, d_loaders, epoch, best_valid_acc, epoch_train,
                   epoch_valid, logs, saves, ref>>

D_Validate ==
    /\ dpc = "validate"
    /\ output' = Append(output, "validation phase")
    /\ Enter("test", d_loaders.valid, epoch, [NoKw EXCEPT !.save_path = "dir"])
    /\ calls' = calls + 1
    /\ dpc' = "validating"
    /\ UNCHANGED <<modelVars, exc, args, defined, d_loaders, epoch, best_valid_acc,
                   epoch_train, epoch_valid, logs, saves, dexc, ref>>

D_Log ==
    /\ dpc = "validating" /\ pc = "returned"
    /\ epoch_valid' = ret
    /\ output' = output \o <<"validation loss", "validation accuracy">>
    /\ logs' = Append(logs, [epoch |-> epoch, loss_tr |-> epoch_train.loss,
                             acc_tr |-> epoch_train.acc, loss_val |-> ret.loss,
                             acc_val |-> ret.acc])
    /\ pc' = "idle"
    /\ dpc' = "ckpt"
    /\ UNCHANGED <<modelVars, argVars, batchVars, accVars, idx, final_radius, ret, exc,
                   trace, applied, calls, args, defined, d_loaders, epoch, best_valid_acc,
                   epoch_train, saves, dexc, ref>>

D_Checkpoint ==
    /\ dpc = "ckpt"
    /\ \/ /\ Improved(epoch_valid.acc, best_valid_acc)
          /\ best_valid_acc' = epoch_valid.acc
          /\ output' = Append(output, "save best model")
          /\ \/ /\ saves' = Append(saves, [epoch |-> epoch,
                                           best_valid_acc |-> epoch_valid.acc,
                                           model |-> params])
                /\ dpc' = "epoch_end"
                /\ UNCHANGED dexc
             \/ /\ dexc' = "torch.save"
                /\ dpc' = "aborted"
                /\ UNCHANGED saves
       \/ /\ ~Improved(epoch_valid.acc, best_valid_acc)
          /\ dpc' = "epoch_end"
          /\ UNCHANGED <<best_valid_acc, output, saves, dexc>>
    /\ UNCHANGED <<frameVars, args, defined, d_loaders, epoch, epoch_train, epoch_valid,
                   logs, ref>>

D_EpochEnd ==
    /\ dpc = "epoch_end"
    /\ output' = output \o <<"epoch time", "elapsed time", "estimated time">>
    /\ epoch' = epoch + 1
    /\ dpc' = "epoch"
    /\ UNCHANGED <<frameVars, args, defined, d_loaders, best_valid_acc, epoch_train,
                   epoch_valid, logs, saves, dexc, ref>>

D_Finish ==
    /\ dpc = "epoch" /\ epoch = args.num_epochs
    /\ output' = Append(output, "finished")
    /\ dpc' = "done"
    /\ UNCHANGED <<frameVars, args, defined, d_loaders, epoch, best_valid_acc, epoch_train,
                   epoch_valid, logs, saves, dexc, ref>>

\* An exception raised inside a trainer function is not caught by the driver.
D_Propagate ==
    /\ dpc \in {"training", "validating"} /\ pc = "raised"
    /\ dexc' = exc
    /\ dpc' = "aborted"
    /\ UNCHANGED <<frameVars, args, defined, d_loaders, epoch, best_valid_acc, epoch_train,
                   epoch_valid, logs, saves, output, ref>>

NextDriver ==
    \/ D_Setup \/ D_BuildLoaders \/ D_BuildModel \/ D_StageNames \/ D_Wrap \/ D_BuildOptim
    \/ D_EpochStart \/ D_Dispatch \/ D_TrainReturned \/ D_PrintTrain \/ D_Validate
    \/ D_Log \/ D_Checkpoint \/ D_EpochEnd \/ D_Finish \/ D_Propagate
    \/ train_Begin \/ train_Forward \/ train_Viz \/ train_Update \/ train_Finish
    \/ CutMix_Begin \/ CutMix_Draw \/ CutMix_Mix \/ CutMix_Plain \/ CutMix_Viz
    \/ CutMix_Update \/ CutMix_Finish
    \/ HPS_Begin \/ HPS_Forward \/ HPS_PrePass \/ HPS_Mix \/ HPS_Plain \/ HPS_Viz
    \/ HPS_Update \/ HPS_Finish
    \/ test_Begin \/ test_Forward \/ test_Viz \/ test_Finish

SpecDriver == InitDriver /\ [][NextDriver]_vars

(***************************************************************************)
(* Claims.                                                                 *)
(***************************************************************************)
HybridFns == {"train_HybridPartSwapping", "train_HybridCutMix"}
Prefix(tr, i) == SubSeq(tr, 1, i)

\* C1: one invocation of a training function calls scheduler.step() exactly
\* once, after the optimizer.step() of the last batch; test() never calls it.
C1_SchedulerOncePerEpoch ==
    /\ Count(trace, "sched") <= 1
    /\ fn = "test" => Count(trace, "sched") = 0
    /\ (fn \in TrainFns /\ pc = "returned") => Count(trace, "sched") = 1
    /\ \A i \in 1..Len(trace) :
          trace[i] = "sched" =>
              /\ i = Len(trace)
              /\ Count(Prefix(trace, i), "step") = Len(train_loader)
              /\ trace[i - 1] = "step"

C1_Witness ==
    /\ fn \in TrainFns /\ pc = "returned" /\ Len(train_loader) = 2
    /\ Count(trace, "step") = 2 /\ trace[Len(trace)] = "sched"

\* C2: in the two hybrid loops every batch leads to exactly one
\* optimizer.step(); the gradient of the pre-pass backward is zeroed before
\* any step, and the step applies the gradient of the final loss only.
C2_OneStepFinalGradient ==
    fn \in HybridFns =>
        /\ Count(trace, "step") = idx
        /\ pc = "returned" => Count(trace, "step") = Len(train_loader)
        /\ applied \in {<<>>, <<"final">>}
        /\ idx > 0 => applied = <<"final">>
        /\ pc = "mix" => grad = <<>>
        /\ \A i \in 1..Len(trace) :
              /\ trace[i] = "step" =>
                    i > 2 /\ trace[i - 1] = "backward" /\ trace[i - 2] = "zero_grad"
              /\ (trace[i] = "backward" /\ i < Len(trace)) =>
                    trace[i + 1] \in {"zero_grad", "step"}

C2_Witness ==
    /\ fn \in HybridFns /\ pc = "returned" /\ Len(train_loader) = 2
    /\ Count(trace, "clear_dict") = 1 /\ Count(trace, "step") = 2

\* C3: the accuracy returned is n_corrects / n_samples, n_samples the sum of
\* the batch sizes seen, n_corrects the number of samples whose argmax
\* prediction equals their original label; both start at 0 in every call.
SizesUpTo(loader, i) == SumSeq([k \in 1..i |-> Len(loader[k])])

BatchesCounted == IF fn = "test" /\ pc \in {"viz", "raised"} THEN idx + 1 ELSE idx

C3_Accumulators ==
    fn # "none" =>
        /\ n_samples = SizesUpTo(train_loader, BatchesCounted)
        /\ 0 <= n_corrects /\ n_corrects <= n_samples
        /\ pc = "returned" =>
              /\ n_samples = SizesUpTo(train_loader, Len(train_loader))
              /\ ret.acc = Norm(<<n_corrects, n_samples>>)

C3_Counting ==
    IF pc' = "entry" \/ pc = "entry"
    THEN n_corrects' = 0 /\ n_samples' = 0
    ELSE (n_corrects' # n_corrects \/ n_samples' # n_samples) =>
             /\ n_samples' = n_samples + Len(train_loader[idx + 1])
             /\ n_corrects' = n_corrects
                   + Cardinality({k \in 1..Len(train_loader[idx + 1]) :
                                     pred_max'[k] = Label(train_loader[idx + 1][k])})

C3_AccuracyIsCorrectOverSamples == [](C3_Accumulators) /\ [][C3_Counting]_vars

C3_Witness ==
    /\ pc = "returned" /\ Len(train_loader) = 2
    /\ 0 < n_corrects /\ n_corrects < n_samples /\ n_samples = 2
    /\ ret.acc = <<1, 2>>

\* The loss of the current batch is the two-label weighted sum.
LabelsMixed ==
    /\ mix.mixed /\ pc \in {"viz", "update"}
    /\ fn = "train_CutMix" \/ target_stage_index >= FineStages

\* C4: on every augmented batch the label-mixing coefficients lie in [0, 1].
C4_CoefficientInUnitInterval ==
    LabelsMixed =>
        /\ RLe(RInt(0), loss.wa) /\ RLe(loss.wa, RInt(1))
        /\ RLe(RInt(0), loss.wb) /\ RLe(loss.wb, RInt(1))

\* C5: on every label-mixed batch the weight of the original labels is the
\* batch-mean fraction of pixels kept from the original image, the weight of
\* the permuted labels the fraction swapped in.
\* Fraction of an up-sampled mask's pixels that are 1 (kept from the original).
KeptFraction(m) == Norm(<<Cardinality({p \in Pix : m[p] = 1}), ImgSide * ImgSide>>)

MeanKept == RMean([k \in 1..Len(mix.up) |-> KeptFraction(mix.up[k])])

C5_WeightsFollowArea ==
    LabelsMixed =>
        /\ loss.ta = labels
        /\ loss.wa = MeanKept
        /\ loss.wb = RSub(RInt(1), MeanKept)

\* C6: with cut_prob = 0 no batch of a strategy takes the augmented branch,
\* and the model calls, the batches fed, the parameter updates and the
\* returned loss and accuracy are those of train() on the same inputs.
IsModelCall(e) == e \in {"forward", "backward", "step", "sched"}
ModelCalls(tr) == SelectSeq(tr, IsModelCall)

C6_ZeroCutProbIsVanilla ==
    (calls = 2 /\ kw.cut_prob = 0) =>
        /\ pc \notin {"pre", "mix"}
        /\ ~mix.mixed
        /\ pc \in {"plain", "viz", "update", "raised"} =>
              batch = BatchImages(train_loader[idx + 1])
        /\ Len(ModelCalls(trace)) <= Len(ModelCalls(ref.trace))
        /\ ModelCalls(trace) = Prefix(ModelCalls(ref.trace), Len(ModelCalls(trace)))
        /\ pc = "returned" =>
              /\ ModelCalls(trace) = ModelCalls(ref.trace)
              /\ params = ref.params /\ momentum = ref.momentum
              /\ last_epoch = ref.last_epoch
              /\ ret = ref.ret

C6_Witness ==
    /\ calls = 2 /\ kw.cut_prob = 0 /\ pc = "returned"
    /\ fn = "train_HybridCutMix" /\ Len(train_loader) = 2
    /\ ret.loss # RInt(0) /\ Len(ModelCalls(trace)) > 2 * Len(train_loader)

\* C7: test() makes no backward pass, no optimizer or scheduler call and no
\* augmentation; parameters, optimizer state and scheduler state are left as
\* they were, call after call.
C7_Quiet ==
    fn = "test" =>
        /\ \A i \in 1..Len(trace) : trace[i] \in {"eval", "forward", "savefig"}
        /\ ~mix.mixed
        /\ pc \in {"viz", "raised"} => batch = BatchImages(train_loader[idx + 1])
        /\ (pc = "loop" /\ idx > 0) => batch = BatchImages(train_loader[idx])

C7_Frame ==
    fn' = "test" => UNCHANGED <<params, momentum, grad, last_epoch>>

C7_TestHasNoSideEffects == [](C7_Quiet) /\ [][C7_Frame]_vars

C7_Witness ==
    /\ fn = "test" /\ pc = "returned" /\ calls = 2 /\ Len(train_loader) = 2
    /\ grad # <<>> /\ last_epoch = 1

\* C8: a configuration error (a train_mode outside vanilla / cutmix / hybrid, a
\* net_type with no stage-name mapping) ends the run before the epoch loop is
\* entered: no epoch banner, no training or validation pass, no log row and no
\* checkpoint is ever produced under such a configuration.
ConfigError ==
    \/ args.train_mode \notin {"vanilla", "cutmix", "hybrid"}
    \/ ~HasStageNames(args.net_type)
EpochLoopPcs == {"dispatch", "training", "after_train", "validate", "validating", "ckpt",
                 "epoch_end"}
Printed(line) == \E k \in 1..Len(output) : output[k] = line

C8_ConfigErrorFailsBeforeEpochs ==
    (dpc # "off" /\ ConfigError) =>
        /\ dpc \notin EpochLoopPcs
        /\ ~Printed("current epoch") /\ ~Printed("train phase")
        /\ calls = 0
        /\ Len(logs) <= 1 /\ saves = <<>>

\* C9: a failed side-channel write does not abort the epoch.
C9_WriteFailureDoesNotAbort ==
    exc = "savefig" => pc # "raised"


\* C10: after each epoch of the driver best_valid_acc is the maximum of 0 and
\* the validation accuracies logged so far, and never decreases; a checkpoint
\* was written in exactly the epochs whose validation accuracy was strictly
\* greater than the best before them, and the record written holds that epoch's
\* index, that accuracy and the model state at that moment.
RMax(a, b) == IF RLt(a, b) THEN b ELSE a
AccVal(e) == logs[e + 2].acc_val
RECURSIVE BestBefore(_)
BestBefore(e) == IF e = 0 THEN RInt(0) ELSE RMax(BestBefore(e - 1), AccVal(e - 1))
ImprovingEpochs(n) == {e \in 0..(n - 1) : RLt(BestBefore(e), AccVal(e))}

C10_AfterEpoch ==
    dpc = "epoch_end" =>
        /\ Len(logs) = epoch + 2
        /\ best_valid_acc = BestBefore(epoch + 1)
        /\ {saves[k].epoch : k \in 1..Len(saves)} = ImprovingEpochs(epoch + 1)
        /\ Len(saves) = Cardinality(ImprovingEpochs(epoch + 1))
        /\ \A k \in 1..Len(saves) : saves[k].best_valid_acc = AccVal(saves[k].epoch)
C10_Step ==
    /\ RLe(best_valid_acc, best_valid_acc')
    /\ saves' # saves =>
          saves' = Append(saves, [epoch |-> epoch, best_valid_acc |-> epoch_valid.acc,
                                  model |-> params'])
C10_BestIsMaxAndCheckpointOnImprovement == [](C10_AfterEpoch) /\ [][C10_Step]_vars

\* two epochs done: the first improved on 0 and was saved, the second tied and was not
C10_Witness ==
    /\ dpc = "epoch_end" /\ epoch = 1
    /\ Len(saves) = 1 /\ saves[1].epoch = 0
    /\ epoch_valid.acc = best_valid_acc /\ RLt(RInt(0), best_valid_acc)

\* C11: on every augmented batch of the two hybrid loops the stage activation
\* and the stage gradient read for the mask are those written by the pre-pass
\* forward and the pre-pass backward of the current batch, whatever batches
\* came before; the cache is cleared after the read and before the second
\* forward pass.
C11_CacheReadIsCurrentPrePass ==
    fn \in HybridFns =>
        /\ pc = "mix" =>
              /\ dict_activation = ClearDict /\ dict_gradients = ClearDict
              /\ trace[Len(trace)] = "clear_dict"
        /\ (pc = "mix" \/ (mix.mixed /\ pc \in {"viz", "update", "raised"})) =>
              /\ mix.target_fmap = <<idx, "first">>
              /\ mix.target_gradients = <<idx, "pre">>
        /\ \A i \in 1..Len(trace) :
              trace[i] = "clear_dict" =>
                  /\ i > 2 /\ trace[i - 1] = "zero_grad" /\ trace[i - 2] = "backward"
                  /\ i < Len(trace) => trace[i + 1] = "forward"

\* the second batch is augmented after an augmented first batch, so the cache
\* held the first batch's final gradient when the pre-pass started
C11_Witness ==
    /\ fn \in HybridFns /\ pc = "mix" /\ idx = 1
    /\ Count(trace, "clear_dict") = 2
    /\ mix.target_gradients = <<1, "pre">>

\* The current batch of a hybrid loop took the augmented branch.
AugmentedBatch ==
    /\ fn \in HybridFns
    /\ pc = "mix" \/ (mix.mixed /\ pc \in {"viz", "update", "raised"})

\* C12: in train_HybridCutMix the radius and the number of proposals handed to
\* the mask generator for a batch are a function of kwargs 'radius' and
\* 'multiplier', model.num_stages and the stage drawn for that batch only,
\* not of the augmented batches that came before.
C12_MaskParametersDependOnBatchOnly ==
    (fn = "train_HybridCutMix" /\ AugmentedBatch) =>
        /\ mix.radius = ScaledRadius(kw.radius, target_stage_index)
        /\ mix.num_proposals = (NumStages - target_stage_index) * kw.multiplier

\* C13: on an augmented batch of a hybrid loop the pixels are mixed and the
\* second forward pass runs on the mixed batch whatever the stage; with a
\* target stage below 3 the loss is criterion(pred, labels) on the original
\* labels only, with 3 or more it is the two-label weighted sum; in
\* train_HybridPartSwapping the stage is num_stages - 1 = 3, so the labels are
\* mixed on every augmented batch.
LoaderBatch == BatchImages(train_loader[idx + 1])
LoaderLabels == BatchLabels(train_loader[idx + 1])
PermutedLabels == [k \in 1..Len(LoaderLabels) |-> LoaderLabels[mix.rand_index[k]]]

C13_LabelMixingFollowsStage ==
    (AugmentedBatch /\ mix.mixed) =>
        /\ labels = LoaderLabels
        /\ batch = [k \in 1..Len(LoaderBatch) |->
                       Blend(mix.up[k], LoaderBatch[k], LoaderBatch[mix.rand_index[k]])]
        /\ pred_max = Forward(params, batch)
        /\ target_stage_index < FineStages =>
              loss = [wa |-> RInt(1), wb |-> RInt(0), ta |-> LoaderLabels,
                      tb |-> LoaderLabels, val |-> Criterion(pred_max, LoaderLabels)]
        /\ target_stage_index >= FineStages =>
              /\ loss.ta = LoaderLabels /\ loss.tb = PermutedLabels
              /\ loss.wb = RSub(RInt(1), loss.wa)
              /\ loss.val = RAdd(RMul(Criterion(pred_max, LoaderLabels), loss.wa),
                                 RMul(Criterion(pred_max, PermutedLabels), loss.wb))
        /\ fn = "train_HybridPartSwapping" =>
              target_stage_index = NumStages - 1 /\ target_stage_index >= FineStages

\* a fine stage of train_HybridCutMix: the images were changed by the mix, the
\* permutation moved labels, and the loss still uses the original labels alone
C13_Witness ==
    /\ fn = "train_HybridCutMix" /\ AugmentedBatch /\ mix.mixed /\ pc = "update"
    /\ target_stage_index < FineStages
    /\ batch # LoaderBatch /\ PermutedLabels # LoaderLabels
    /\ loss.wb = RInt(0) /\ loss.tb = LoaderLabels

=============================================================================
